---- MODULE Spec2Model ----
(***************************************************************************)
(* A model of the chart parser of src/src/parser.rs over the grammars of   *)
(* src/src/grammar.rs, driven as src/src/main.rs drives them:              *)
(* Grammar::new, Parser::new, then Parser::parse, whose loop runs predict, *)
(* scan and cont until get_end_edges is non-empty, then prints.            *)
(*                                                                         *)
(* Positions are those of the source: spans and history entries count      *)
(* from 0, so the edge with id i is chart[i + 1] and the token at input    *)
(* position p is input[p + 1].                                             *)
(***************************************************************************)
EXTENDS Integers, Sequences, FiniteSets, TLC

VARIABLES
    args,           \* what the driver passes: sets, start, rules, privileged
    grammar,        \* the Grammar built by Grammar::new, or NoGrammar
    chart,          \* Parser.chart
    privileged,     \* Parser.privileged
    starting_rule,  \* Parser.starting_rule
    input,          \* the argument of the running (or last) parse call
    pc,             \* where the driver / parse is
    result,         \* the last Result returned: Pending, Ok or the Err string
    output,         \* the rule sequences print_parse_tree printed, per end edge
    origin,         \* for each chart position, the phase that pushed the edge
    calls,          \* parse calls made so far
    round_base,     \* chart.len() when the running (or last) round began, 0 before
    rounds          \* rounds of the running parse that ended with a longer chart

vars == <<args, grammar, chart, privileged, starting_rule, input, pc, result,
          output, origin, calls, round_base, rounds>>

----------------------------------------------------------------------------
(* Bounds *)

MaxInputLen == 3

----------------------------------------------------------------------------
(* grammar.rs: symbols and rules *)

NonTerminal(x) == [tag |-> "NonTerminal", name |-> x]

Terminal(x) == [tag |-> "Terminal", name |-> x]

\* Rule = (Symbol, Vec<Symbol>): rule.0 is rule[1], rule.1 is rule[2]
Rule(left, right) == <<left, right>>

NoGrammar == [none |-> TRUE]

NoRule == <<>>

ErrStart == "Starting symbol not in the set of non-terminals"

ErrLeft == "Left side of rule is not a non-terminal"

ErrRight == "Symbol on right side of rule is neither a terminal, nor a non-terminal"

ErrPrivileged == "Privileged non-terminal, not in the set of non-terminals"

ErrNoStartRule == "No rule reducing the starting symbol"

ErrInput == "Input symbol not in grammar's terminals"

Range(s) == {s[i] : i \in DOMAIN s}

\* Grammar::new without the loop over the symbols of the right sides
GrammarNewLeftOnly(a) ==
    IF a.start \notin a.non_terminals THEN ErrStart
    ELSE IF \E i \in DOMAIN a.rules : a.rules[i][1] \notin a.non_terminals THEN ErrLeft
    ELSE "Ok"

\* Grammar::new: the first failing check decides the error; the rules are
\* visited in the HashSet's iteration order, which g.rules is
GrammarNewResult(a) ==
    IF a.start \notin a.non_terminals THEN ErrStart
    ELSE LET bad(r) == \/ r[1] \notin a.non_terminals
                       \/ \E k \in DOMAIN r[2] :
                             r[2][k] \notin a.non_terminals /\ r[2][k] \notin a.terminals
             firstBad == CHOOSE i \in DOMAIN a.rules :
                             bad(a.rules[i]) /\ \A j \in 1..(i - 1) : ~bad(a.rules[j])
         IN IF \A i \in DOMAIN a.rules : ~bad(a.rules[i]) THEN "Ok"
            ELSE IF a.rules[firstBad][1] \notin a.non_terminals THEN ErrLeft
            ELSE ErrRight

in_terminals(g, symbol) == symbol \in g.terminals

\* a membership test that takes any declared symbol for a non-terminal
in_declared_symbols(g, symbol) == symbol \in g.non_terminals \cup g.terminals

in_non_terminals(g, symbol) == symbol \in g.non_terminals

\* the first rule in iteration order, whatever its left side
get_first_rule(g) == IF g.rules = <<>> THEN NoRule ELSE Head(g.rules)

\* the first rule, in iteration order, whose left side is the start symbol
get_starting_rule(g) ==
    LET hits == SelectSeq(g.rules, LAMBDA r : r[1] = g.start)
    IN IF hits = <<>> THEN NoRule ELSE Head(hits)

get_rules(g, symbol) == SelectSeq(g.rules, LAMBDA r : r[1] = symbol)

get_terminal_rule(g, non_term, terminal) ==
    LET hits == SelectSeq(g.rules,
                    LAMBDA r : r[1] = non_term /\ Len(r[2]) = 1 /\ r[2][1] = terminal)
    IN IF hits = <<>> THEN NoRule ELSE Head(hits)

----------------------------------------------------------------------------
(* parser.rs: edges *)

DottedRule(rule, dot_pos) == [rule |-> rule, dot_pos |-> dot_pos]

Edge(d_rule, span, history) == [d_rule |-> d_rule, span |-> span, history |-> history]

\* impl PartialEq for Edge: the history is not compared
EdgeEq(e1, e2) ==
    /\ e1.d_rule.rule = e2.d_rule.rule
    /\ e1.d_rule.dot_pos = e2.d_rule.dot_pos
    /\ e1.span = e2.span

\* Vec::contains under EdgeEq
Contains(edges, e) == \E i \in DOMAIN edges : EdgeEq(edges[i], e)

\* the symbol after the dot: rule.1[dot_pos]
AtDot(edge) == edge.d_rule.rule[2][edge.d_rule.dot_pos + 1]

DotAtEnd(edge) == Len(edge.d_rule.rule[2]) = edge.d_rule.dot_pos

SeedEdge(rule) == Edge(DottedRule(rule, 0), <<0, 0>>, <<>>)

\* the end edges without the test on the span
get_end_edges_any_span(ch, start_rule, inp) ==
    SelectSeq(ch, LAMBDA e : /\ e.d_rule.rule = start_rule
                             /\ e.d_rule.dot_pos = Len(start_rule[2]))

get_end_edges(ch, start_rule, inp) ==
    LET end == Edge(DottedRule(start_rule, Len(start_rule[2])), <<0, Len(inp)>>, <<>>)
    IN SelectSeq(ch, LAMBDA e : EdgeEq(e, end))

\* The visits of two nested loops, the outer over 1..n and the inner over 1..m,
\* in the order the loops make them
Visits(n, m) == [p \in 1..(n * m) |-> <<((p - 1) \div m) + 1, ((p - 1) % m) + 1>>]

\* a push without the two tests: every edge built is pushed
PushedAll(ch, made) == [k \in 1..Len(made) |-> k]

\* "if !chart.contains(&new_edge) && !new_edges.contains(&new_edge) { push }" over
\* the edges `made` that a loop builds, in the order it builds them: the
\* positions of `made` that are pushed. new_edges holds pushed edges only, and
\* EdgeEq is an equivalence, so an edge is pushed exactly when it is not in the
\* chart and equals no edge built before it.
Pushed(ch, made) ==
    SelectSeq([k \in 1..Len(made) |-> k],
              LAMBDA k : /\ ~Contains(ch, made[k])
                         /\ \A j \in 1..(k - 1) : ~EdgeEq(made[j], made[k]))

\* predict without the test on the privileged set
PredictVisitPrivileged(ch, g, priv, i, j) ==
    /\ ~DotAtEnd(ch[i])
    /\ AtDot(ch[i]).tag = "NonTerminal"
    /\ g.rules[j][1] = AtDot(ch[i])

\* predict's loops reach the push test for the edge at chart position i and the
\* j-th rule of the grammar (get_rules visits every rule and keeps those of the
\* symbol after the dot)
PredictVisit(ch, g, priv, i, j) ==
    /\ ~DotAtEnd(ch[i])
    /\ AtDot(ch[i]) \notin priv
    /\ AtDot(ch[i]).tag = "NonTerminal"
    /\ g.rules[j][1] = AtDot(ch[i])

PredictEdge(ch, g, i, j) ==
    Edge(DottedRule(g.rules[j], 0), <<ch[i].span[2], ch[i].span[2]>>, <<>>)

\* predict's new_edges
PredictNew(ch, g, priv) ==
    LET visits == SelectSeq(Visits(Len(ch), Len(g.rules)),
                            LAMBDA v : PredictVisit(ch, g, priv, v[1], v[2]))
        made == [k \in DOMAIN visits |-> PredictEdge(ch, g, visits[k][1], visits[k][2])]
        kept == Pushed(ch, made)
    IN [m \in DOMAIN kept |-> made[kept[m]]]

\* scan's loop reaches, for the edge at chart position i, the push test of the
\* privileged branch (which = 1) or of the shift (which = 2)
ScanVisit(ch, g, priv, inp, i, which) ==
    /\ ~DotAtEnd(ch[i])
    /\ ch[i].span[2] < Len(inp)
    /\ IF which = 1
       THEN /\ AtDot(ch[i]) \in priv
            /\ get_terminal_rule(g, AtDot(ch[i]), inp[ch[i].span[2] + 1]) # NoRule
       ELSE AtDot(ch[i]) = inp[ch[i].span[2] + 1]

\* a span for that edge that ends two positions behind the scanned edge
PrivilegedSpanTwo(edge) == <<edge.span[1], edge.span[2] + 2>>

\* the span scan gives the completed edge of a privileged non-terminal
PrivilegedSpan(edge) == <<edge.span[1], edge.span[2] + 1>>

ScanEdge(ch, g, inp, i, which) ==
    IF which = 1
    THEN Edge(DottedRule(get_terminal_rule(g, AtDot(ch[i]), inp[ch[i].span[2] + 1]), 1),
              PrivilegedSpan(ch[i]), <<>>)
    ELSE Edge(DottedRule(ch[i].d_rule.rule, ch[i].d_rule.dot_pos + 1),
              <<ch[i].span[1], ch[i].span[2] + 1>>, <<>>)

\* scan's pushes: the visits whose edge is pushed, in order
ScanPushes(ch, g, priv, inp) ==
    LET visits == SelectSeq(Visits(Len(ch), 2),
                            LAMBDA v : ScanVisit(ch, g, priv, inp, v[1], v[2]))
        made == [k \in DOMAIN visits |-> ScanEdge(ch, g, inp, visits[k][1], visits[k][2])]
        kept == Pushed(ch, made)
    IN [m \in DOMAIN kept |-> visits[kept[m]]]

\* scan's new_edges
ScanNew(ch, g, priv, inp) ==
    LET pushes == ScanPushes(ch, g, priv, inp)
    IN [m \in DOMAIN pushes |-> ScanEdge(ch, g, inp, pushes[m][1], pushes[m][2])]

\* which of scan's two pushes made each of its new edges
ScanOrigin(ch, g, priv, inp) ==
    LET pushes == ScanPushes(ch, g, priv, inp)
    IN [m \in DOMAIN pushes |->
           IF pushes[m][2] = 1 THEN "scan_privileged" ELSE "scan_shift"]

\* cont's test with the right endpoints of the two edges compared
ContVisitRightEnds(ch, i, i2) ==
    /\ DotAtEnd(ch[i])
    /\ ch[i2].d_rule.dot_pos < Len(ch[i2].d_rule.rule[2])
    /\ AtDot(ch[i2]) = ch[i].d_rule.rule[1]
    /\ ch[i2].span[2] = ch[i].span[2]

\* cont's test on the completed edge at chart position i and edge_2 at position i2
ContVisit(ch, i, i2) ==
    /\ DotAtEnd(ch[i])
    /\ ch[i2].d_rule.dot_pos < Len(ch[i2].d_rule.rule[2])
    /\ AtDot(ch[i2]) = ch[i].d_rule.rule[1]
    /\ ch[i2].span[2] = ch[i].span[1]

\* cont's edge with the id of edge_2 pushed on the history
ContEdgeOwnId(ch, i, i2) ==
    Edge(DottedRule(ch[i2].d_rule.rule, ch[i2].d_rule.dot_pos + 1),
         <<ch[i2].span[1], ch[i].span[2]>>,
         Append(ch[i2].history, i2 - 1))

\* the edge cont builds from them; the history gets the id of the completed edge
ContEdge(ch, i, i2) ==
    Edge(DottedRule(ch[i2].d_rule.rule, ch[i2].d_rule.dot_pos + 1),
         <<ch[i2].span[1], ch[i].span[2]>>,
         Append(ch[i2].history, i - 1))

\* one pass of cont's loop: its new_edges, tested against the chart only
ContPass(ch) ==
    LET visits == SelectSeq(Visits(Len(ch), Len(ch)),
                            LAMBDA v : ContVisit(ch, v[1], v[2]))
        made == [k \in DOMAIN visits |-> ContEdge(ch, visits[k][1], visits[k][2])]
    IN SelectSeq(made, LAMBDA e : ~Contains(ch, e))

\* cont with a single pass whose new edges go in front of the chart
ContNewFirst(ch) == ContPass(ch) \o ch

\* cont with a single pass
ContOnePass(ch) == ch \o ContPass(ch)

\* cont: passes until one adds nothing
RECURSIVE ContLoop(_)
ContLoop(ch) ==
    LET new_edges == ContPass(ch)
    IN IF new_edges = <<>> THEN ch ELSE ContLoop(ch \o new_edges)

\* print_parse_tree: the rules printed, in order, for a stack of edges
RECURSIVE PrintStack(_, _)
PrintStack(ch, stack) ==
    IF stack = <<>> THEN <<>>
    ELSE LET edge == stack[Len(stack)]
             rest == SubSeq(stack, 1, Len(stack) - 1)
             pushed == [k \in 1..Len(edge.history) |-> ch[edge.history[k] + 1]]
         IN <<edge.d_rule.rule>> \o PrintStack(ch, rest \o pushed)

print_parse_tree(ch, end_edge) == PrintStack(ch, <<end_edge>>)

----------------------------------------------------------------------------
(* What the driver may pass *)

S == NonTerminal("S")

X == NonTerminal("X")

N == NonTerminal("N")

a == Terminal("a")

b == Terminal("b")

Perms(set) ==
    {f \in [1..Cardinality(set) -> set] : \A x \in set : \E i \in DOMAIN f : f[i] = x}

\* The iteration orders of a HashSet<Rule> that the lookups of grammar.rs can
\* tell apart: each of them filters on the left side, so only the order among
\* the rules of one left side shows, and the groups are laid out one after
\* the other in the order of lefts.
RECURSIVE IterOrders(_, _)
IterOrders(lefts, rules) ==
    IF lefts = <<>> THEN {<<>>}
    ELSE {p \o rest : p \in Perms({r \in rules : r[1] = Head(lefts)}),
                      rest \in IterOrders(Tail(lefts), rules)}

SmallGrammars ==
    { \* a privileged N behind a terminal
      [non_terminals |-> {S, X, N}, terminals |-> {a, b}, start |-> S,
       rules |-> {Rule(S, <<X>>), Rule(X, <<N>>), Rule(X, <<a, N, b>>), Rule(N, <<b>>)}],
      \* two splits of one span
      [non_terminals |-> {S, X, N}, terminals |-> {a}, start |-> S,
       rules |-> {Rule(S, <<X, N>>), Rule(X, <<a>>), Rule(X, <<a, a>>),
                  Rule(N, <<a>>), Rule(N, <<a, a>>)}],
      \* a terminal between two non-terminals
      [non_terminals |-> {S, N}, terminals |-> {a, b}, start |-> S,
       rules |-> {Rule(S, <<N, a, N>>), Rule(N, <<b>>)}],
      \* two rules for the start symbol
      [non_terminals |-> {S}, terminals |-> {a, b}, start |-> S,
       rules |-> {Rule(S, <<a>>), Rule(S, <<b>>)}],
      \* left recursion
      [non_terminals |-> {S}, terminals |-> {a}, start |-> S,
       rules |-> {Rule(S, <<S, S>>), Rule(S, <<a>>)}],
      \* an empty right side
      [non_terminals |-> {S, N}, terminals |-> {b}, start |-> S,
       rules |-> {Rule(S, <<N, b>>), Rule(N, <<>>), Rule(N, <<b>>)}],
      \* nesting
      [non_terminals |-> {S}, terminals |-> {a, b}, start |-> S,
       rules |-> {Rule(S, <<a, S, b>>), Rule(S, <<a, b>>)}],
      \* the same non-terminal twice
      [non_terminals |-> {S, N}, terminals |-> {a, b}, start |-> S,
       rules |-> {Rule(S, <<N, N>>), Rule(N, <<a>>), Rule(N, <<b>>)}],
      \* right recursion through the start symbol
      [non_terminals |-> {S}, terminals |-> {a, b}, start |-> S,
       rules |-> {Rule(S, <<a, S>>), Rule(S, <<b>>)}],
      \* a cycle of unit rules
      [non_terminals |-> {S, N}, terminals |-> {a}, start |-> S,
       rules |-> {Rule(S, <<N>>), Rule(N, <<S>>), Rule(N, <<a>>)}],
      \* a non-terminal and a terminal of one name
      [non_terminals |-> {S, NonTerminal("a")}, terminals |-> {a}, start |-> S,
       rules |-> {Rule(S, <<NonTerminal("a"), a>>), Rule(NonTerminal("a"), <<a>>)}],
      \* a cycle of unit rules that reaches no terminal
      [non_terminals |-> {S, N}, terminals |-> {a}, start |-> S,
       rules |-> {Rule(S, <<N>>), Rule(N, <<S>>)}],
      \* a chain of unit rules under a non-terminal that occurs twice
      [non_terminals |-> {S, X, N}, terminals |-> {a}, start |-> S,
       rules |-> {Rule(S, <<X, X>>), Rule(X, <<N>>), Rule(N, <<a>>)}],
      \* no rule for the start symbol
      [non_terminals |-> {S, N}, terminals |-> {b}, start |-> S,
       rules |-> {Rule(N, <<b>>)}],
      \* rejected by Grammar::new
      [non_terminals |-> {N}, terminals |-> {b}, start |-> S,
       rules |-> {Rule(N, <<b>>)}],
      [non_terminals |-> {S}, terminals |-> {b}, start |-> S,
       rules |-> {Rule(S, <<b>>), Rule(N, <<b>>)}],
      [non_terminals |-> {S}, terminals |-> {b}, start |-> S,
       rules |-> {Rule(S, <<b>>), Rule(S, <<a>>)}] }

\* privileged sets: the subsets of the declared non-terminals, and two sets
\* holding a symbol that is not one
PrivilegedSets(g) ==
    SUBSET g.non_terminals \cup {{Terminal("b")}, {NonTerminal("Q")}}

\* what main passes on, for one grammar
DriversOf(g, orders, privs) ==
    {[non_terminals |-> g.non_terminals, terminals |-> g.terminals,
      start |-> g.start, rules |-> order, privileged |-> priv,
      parse_calls |-> 1] :
        order \in orders, priv \in privs}

\* the token sequences of at most MaxInputLen tokens, each a terminal's name
\* or the undeclared "z"
SmallSentences(drv) ==
    UNION {[1..n -> {t.name : t \in drv.terminals} \cup {"z"}] : n \in 0..MaxInputLen}

SmallDrivers ==
    UNION {DriversOf(g, IterOrders(<<S, X, N, NonTerminal("a")>>, g.rules)
                        \cup IterOrders(<<NonTerminal("a"), N, X, S>>, g.rules),
                     PrivilegedSets(g)) : g \in SmallGrammars}

\* main.rs: the grammar, the privileged set and the sentence of main
DemoRules ==
    LET NT(x) == NonTerminal(x)
        T(x) == Terminal(x)
    IN << Rule(NT("S"), <<NT("NP"), NT("VP")>>),
          Rule(NT("NP"), <<NT("N"), NT("PP")>>),
          Rule(NT("NP"), <<NT("N")>>),
          Rule(NT("PP"), <<NT("P"), NT("NP")>>),
          Rule(NT("VP"), <<NT("VP"), NT("PP")>>),
          Rule(NT("VP"), <<NT("V"), NT("VP")>>),
          Rule(NT("VP"), <<NT("V"), NT("NP")>>),
          Rule(NT("VP"), <<NT("V")>>),
          Rule(NT("N"), <<T("can")>>),
          Rule(NT("N"), <<T("fish")>>),
          Rule(NT("N"), <<T("rivers")>>),
          Rule(NT("N"), <<T("they")>>),
          Rule(NT("N"), <<T("December")>>),
          Rule(NT("P"), <<T("in")>>),
          Rule(NT("V"), <<T("can")>>),
          Rule(NT("V"), <<T("fish")>>) >>

DemoGrammar ==
    [non_terminals |-> {NonTerminal(x) : x \in {"S", "NP", "VP", "PP", "N", "V", "P"}},
     terminals |-> {Terminal(x) : x \in {"can", "fish", "rivers", "they", "in", "December"}},
     start |-> NonTerminal("S"),
     rules |-> Range(DemoRules)]

DemoPrivileged == {NonTerminal("N"), NonTerminal("V"), NonTerminal("P")}

DemoSentence == <<"they", "can", "fish", "in", "rivers", "in", "December">>

Reverse(s) == [k \in 1..Len(s) |-> s[Len(s) + 1 - k]]

Rotations(s) == {SubSeq(s, k, Len(s)) \o SubSeq(s, 1, k - 1) : k \in 1..Len(s)}

\* iteration orders of the demo's rule set: the order main lists the rules in,
\* its reverse, and the rotations of the two
DemoOrders == Rotations(DemoRules) \cup Rotations(Reverse(DemoRules))

DemoDrivers == DriversOf(DemoGrammar, DemoOrders, {DemoPrivileged})

\* the sentence of main and three more over the same words, one of them with
\* an undeclared word
DemoSentences ==
    {DemoSentence, <<"they", "swim">>, <<"they", "fish", "can">>, <<"they", "fish", "in">>}

\* the token sequences the driver may pass to parse
Sentences(drv) ==
    IF drv.terminals = DemoGrammar.terminals THEN DemoSentences ELSE SmallSentences(drv)

----------------------------------------------------------------------------
(* The driver and the steps of parse *)

InputTerminals(inp) == [k \in DOMAIN inp |-> Terminal(inp[k])]

\* an input check that looks at the first string only
InputValidFirst(g, inp) == inp = <<>> \/ in_terminals(g, Terminal(inp[1]))

\* parse's first loop: every string of the input is a terminal of the grammar
InputValid(g, inp) == \A k \in DOMAIN inp : in_terminals(g, Terminal(inp[k]))

InitWith(drivers) ==
    /\ args \in drivers
    /\ grammar = NoGrammar
    /\ chart = <<>>
    /\ privileged = {}
    /\ starting_rule = NoRule
    /\ input = <<>>
    /\ pc = "grammar_new"
    /\ result = "Pending"
    /\ output = <<>>
    /\ origin = <<>>
    /\ calls = 0
    /\ round_base = 0
    /\ rounds = 0

Init == InitWith(SmallDrivers)

\* a driver that calls parse twice on the parser it built
TwoCallDrivers == {[d EXCEPT !.parse_calls = 2] : d \in SmallDrivers}

InitCalls == InitWith(TwoCallDrivers)

\* the run of main.rs
InitDemo == InitWith(DemoDrivers)

\* Grammar::new(non_terminals, terminals, start, rules)?
GrammarNew ==
    /\ pc = "grammar_new"
    /\ LET r == GrammarNewResult(args)
       IN IF r = "Ok"
          THEN /\ grammar' = [non_terminals |-> args.non_terminals,
                              terminals |-> args.terminals,
                              start |-> args.start, rules |-> args.rules]
               /\ pc' = "parser_new"
               /\ UNCHANGED result
          ELSE /\ pc' = "exit"
               /\ result' = r
               /\ UNCHANGED grammar
    /\ UNCHANGED <<args, chart, privileged, starting_rule, input, output, origin,
                   calls, round_base, rounds>>

\* Parser::new(grammar, privileged)?
ParserNew ==
    /\ pc = "parser_new"
    /\ IF \E non_term \in args.privileged : ~in_non_terminals(grammar, non_term)
       THEN /\ pc' = "exit"
            /\ result' = ErrPrivileged
            /\ UNCHANGED <<chart, privileged, starting_rule, origin>>
       ELSE IF get_starting_rule(grammar) = NoRule
       THEN /\ pc' = "exit"
            /\ result' = ErrNoStartRule
            /\ UNCHANGED <<chart, privileged, starting_rule, origin>>
       ELSE /\ chart' = <<SeedEdge(get_starting_rule(grammar))>>
            /\ origin' = <<"new">>
            /\ privileged' = args.privileged
            /\ starting_rule' = get_starting_rule(grammar)
            /\ pc' = "idle"
            /\ UNCHANGED result
    /\ UNCHANGED <<args, grammar, input, output, calls, round_base, rounds>>

\* parse(input), up to the while loop
ParseCall ==
    /\ pc = "idle"
    /\ calls < args.parse_calls
    /\ \E w \in Sentences(args) :
          /\ input' = w
          /\ IF InputValid(grammar, w)
             THEN /\ result' = "Pending"
                  /\ pc' = "loop"
             ELSE /\ result' = ErrInput
                  /\ pc' = "exit"
    /\ calls' = calls + 1
    /\ round_base' = 0
    /\ rounds' = 0
    /\ UNCHANGED <<args, grammar, chart, privileged, starting_rule, output, origin>>

\* the test of parse's while loop
LoopTest ==
    /\ pc = "loop"
    /\ IF get_end_edges(chart, starting_rule, InputTerminals(input)) = <<>>
       THEN /\ pc' = "predict"
            /\ round_base' = Len(chart)
       ELSE /\ pc' = "print"
            /\ UNCHANGED round_base
    /\ UNCHANGED <<args, grammar, chart, privileged, starting_rule, input, result,
                   output, origin, calls, rounds>>

Predict ==
    /\ pc = "predict"
    /\ LET new_edges == PredictNew(chart, grammar, privileged)
       IN /\ chart' = chart \o new_edges
          /\ origin' = origin \o [k \in DOMAIN new_edges |-> "predict"]
    /\ pc' = "scan"
    /\ UNCHANGED <<args, grammar, privileged, starting_rule, input, result, output,
                   calls, round_base, rounds>>

Scan ==
    /\ pc = "scan"
    /\ chart' = chart \o ScanNew(chart, grammar, privileged, InputTerminals(input))
    /\ origin' = origin \o ScanOrigin(chart, grammar, privileged, InputTerminals(input))
    /\ pc' = "cont"
    /\ UNCHANGED <<args, grammar, privileged, starting_rule, input, result, output,
                   calls, round_base, rounds>>

Cont ==
    /\ pc = "cont"
    /\ chart' = ContLoop(chart)
    /\ origin' = origin \o [k \in 1..(Len(chart') - Len(chart)) |-> "cont"]
    /\ pc' = "loop"
    /\ rounds' = IF Len(chart') > round_base THEN rounds + 1 ELSE rounds
    /\ UNCHANGED <<args, grammar, privileged, starting_rule, input, result, output,
                   calls, round_base>>

\* the end of parse: print_parse_tree for each end edge, then Ok(())
PrintTrees ==
    /\ pc = "print"
    /\ LET end_edges == get_end_edges(chart, starting_rule, InputTerminals(input))
       IN output' = [k \in DOMAIN end_edges |-> print_parse_tree(chart, end_edges[k])]
    /\ result' = "Ok"
    /\ pc' = "idle"
    /\ UNCHANGED <<args, grammar, chart, privileged, starting_rule, input, origin,
                   calls, round_base, rounds>>

Next ==
    \/ GrammarNew
    \/ ParserNew
    \/ ParseCall
    \/ LoopTest
    \/ Predict
    \/ Scan
    \/ Cont
    \/ PrintTrees

Spec == Init /\ [][Next]_vars

SpecDemo == InitDemo /\ [][Next]_vars

SpecCalls == InitCalls /\ [][Next]_vars

----------------------------------------------------------------------------
(* Derivations, for the claims below *)

\* the input positions
Positions == 0..Len(input)

\* alpha derives the tokens inp[i..j), given the set `known` of triples
\* <<symbol, i, j>> already known to derive
RECURSIVE SeqDerives(_, _, _, _)
SeqDerives(alpha, i, j, known) ==
    IF alpha = <<>> THEN i = j
    ELSE \E k \in i..j : /\ <<Head(alpha), i, k>> \in known
                         /\ SeqDerives(Tail(alpha), k, j, known)

\* the least set of triples closed under the rules of the grammar
RECURSIVE DerivesClosure(_, _)
DerivesClosure(rules, known) ==
    LET more == known \cup {<<r[1], i, j>> : r \in rules, i \in Positions, j \in Positions}
        next == {t \in more : \/ t \in known
                              \/ \E r \in rules :
                                    /\ r[1] = t[1]
                                    /\ t[2] <= t[3]
                                    /\ SeqDerives(r[2], t[2], t[3], known)}
    IN IF next = known THEN known ELSE DerivesClosure(rules, next)

\* <<symbol, i, j>> for every symbol that derives input[i..j) under the grammar
Derivable ==
    DerivesClosure(Range(grammar.rules),
                   {<<Terminal(input[p]), p - 1, p>> : p \in DOMAIN input})

\* the part of the edge's rule before the dot derives the tokens of its span
EdgeDerives(edge) ==
    /\ edge.span[1] <= edge.span[2]
    /\ SeqDerives(SubSeq(edge.d_rule.rule[2], 1, edge.d_rule.dot_pos),
                  edge.span[1], edge.span[2], Derivable)

\* the input of the running call is derivable from the start symbol
InputDerivable == <<grammar.start, 0, Len(input)>> \in Derivable

HasParser == chart # <<>>

EndEdges == get_end_edges(chart, starting_rule, InputTerminals(input))

FirstCall == HasParser /\ calls <= 1

\* predict; scan; cont, as one round of the loop of parse
Round(ch) ==
    LET predicted == ch \o PredictNew(ch, grammar, privileged)
        scanned == predicted
                   \o ScanNew(predicted, grammar, privileged, InputTerminals(input))
    IN ContLoop(scanned)

----------------------------------------------------------------------------
(* C1 *)

\* C1: on a fresh parser every edge of the chart is sound, that is the symbols
\* before its dot derive exactly the tokens of its span, and parse returns Ok
\* only for an input derivable from the start symbol.
C1_EdgesSound ==
    FirstCall =>
        /\ \A k \in DOMAIN chart : EdgeDerives(chart[k])
        /\ result = "Ok" => InputDerivable

----------------------------------------------------------------------------
(* C2 *)

\* the printed rules expand `pending` into the tokens from position pos on,
\* taking the symbols of each right side from the left
RECURSIVE ExpandsLeft(_, _, _)
ExpandsLeft(pending, trace, pos) ==
    IF pending = <<>> THEN trace = <<>> /\ pos = Len(input)
    ELSE IF Head(pending).tag = "Terminal"
    THEN /\ pos < Len(input)
         /\ Terminal(input[pos + 1]) = Head(pending)
         /\ ExpandsLeft(Tail(pending), trace, pos + 1)
    ELSE /\ trace # <<>>
         /\ Head(trace)[1] = Head(pending)
         /\ ExpandsLeft(Head(trace)[2] \o Tail(pending), Tail(trace), pos)

\* the same, taking the symbols of each right side from the right and the
\* tokens from position pos down
RECURSIVE ExpandsRight(_, _, _)
ExpandsRight(pending, trace, pos) ==
    IF pending = <<>> THEN trace = <<>> /\ pos = 0
    ELSE LET last == pending[Len(pending)]
             front == SubSeq(pending, 1, Len(pending) - 1)
         IN IF last.tag = "Terminal"
            THEN /\ pos > 0
                 /\ Terminal(input[pos]) = last
                 /\ ExpandsRight(front, trace, pos - 1)
            ELSE /\ trace # <<>>
                 /\ Head(trace)[1] = last
                 /\ ExpandsRight(front \o Head(trace)[2], Tail(trace), pos)

\* C2: every rule sequence print_parse_tree emits for an accepting edge is a
\* top-down expansion of the start symbol whose terminals are the input. The
\* claim reads the symbols of a right side in order; the formula also accepts
\* a trace that expands every right side from its last symbol to its first.
C2_TraceSound ==
    (FirstCall /\ result = "Ok") =>
        \A k \in DOMAIN output :
            \/ ExpandsLeft(<<grammar.start>>, output[k], 0)
            \/ ExpandsRight(<<grammar.start>>, output[k], Len(input))

----------------------------------------------------------------------------
(* C3 *)

NoEmptyRightSide == \A k \in DOMAIN grammar.rules : grammar.rules[k][2] # <<>>

\* the loop of parse is at its test after a round that added no edge
RoundAddedNothing == pc = "loop" /\ round_base = Len(chart)

\* C3: for a grammar without empty right sides and a derivable input, parse on
\* a fresh parser leaves its loop with an accepting edge in the chart. The
\* loop is left only at its test, and a round that adds no edge leaves the
\* chart as every later round finds it, so the claim requires an accepting
\* edge whenever a round has added nothing.
C3_Complete ==
    (FirstCall /\ NoEmptyRightSide /\ InputValid(grammar, input) /\ InputDerivable
       /\ RoundAddedNothing)
        => EndEdges # <<>>

----------------------------------------------------------------------------
(* C4 *)

\* C4: when a full round of predict, scan and cont has added no edge and there
\* is no accepting edge, parse returns "no derivation found" instead of
\* running another round.
C4_NoProgressReturns ==
    [][(RoundAddedNothing /\ EndEdges = <<>>) => pc' = "idle"]_vars

----------------------------------------------------------------------------
(* C5 *)

\* the first parse call of a parser built as main builds it, on main's sentence
DemoRun ==
    /\ HasParser
    /\ calls = 1
    /\ Range(grammar.rules) = Range(DemoRules)
    /\ privileged = DemoPrivileged
    /\ input = DemoSentence

\* S -> NP VP . over the span (0, 7)
DemoAccepted ==
    \E k \in DOMAIN chart :
        /\ chart[k].d_rule = DottedRule(DemoRules[1], 2)
        /\ chart[k].span = <<0, Len(DemoSentence)>>

\* C5: on the demo grammar, privileged set and sentence, parse terminates with
\* Ok and an accepting edge S -> NP VP . over (0, 7): every round adds an edge
\* until an accepting edge is there, which takes at most one round per token,
\* and parse then returns Ok.
C5_DemoAccepted ==
    DemoRun =>
        /\ pc # "exit"
        /\ rounds <= Len(DemoSentence)
        /\ RoundAddedNothing => EndEdges # <<>>
        /\ (pc = "loop" /\ rounds = Len(DemoSentence)) => EndEdges # <<>>
        /\ EndEdges # <<>> => DemoAccepted
        /\ pc = "idle" => (result = "Ok" /\ DemoAccepted /\ output # <<>>)

C5_Witness == DemoRun /\ pc = "idle" /\ result = "Ok" /\ DemoAccepted

----------------------------------------------------------------------------
(* C6 *)

HasUndeclaredToken(inp) == \E k \in DOMAIN inp : Terminal(inp[k]) \notin grammar.terminals

\* C6: a parse call whose input holds a token that is not a terminal of the
\* grammar returns the invalid input error, and the chart after the call is
\* the chart before it.
C6_InvalidInput ==
    [][(calls' = calls + 1 /\ HasUndeclaredToken(input'))
          => (result' = ErrInput /\ pc' = "exit" /\ chart' = chart)]_vars

\* the error was returned for an input whose first token is declared
C6_Witness ==
    /\ HasParser
    /\ calls = 1
    /\ Len(input) >= 2
    /\ Terminal(input[1]) \in grammar.terminals
    /\ HasUndeclaredToken(input)
    /\ result = ErrInput
    /\ chart = <<SeedEdge(starting_rule)>>

----------------------------------------------------------------------------
(* C7 *)

\* C7: no two chart positions hold edges with the same rule, dot and span.
C7_NoDuplicates ==
    \A i \in DOMAIN chart : \A j \in DOMAIN chart :
        i # j => ~EdgeEq(chart[i], chart[j])

----------------------------------------------------------------------------
(* C8 *)

PredictRun(ch) == ch \o PredictNew(ch, grammar, privileged)

ScanRun(ch) == ch \o ScanNew(ch, grammar, privileged, InputTerminals(input))

\* C8 as claimed: each phase, run twice in succession, adds nothing the
\* second time.
C8_PhasesIdempotent ==
    HasParser =>
        /\ PredictRun(PredictRun(chart)) = PredictRun(chart)
        /\ ScanRun(ScanRun(chart)) = ScanRun(chart)
        /\ ContLoop(ContLoop(chart)) = ContLoop(chart)

\* C8 as amended: cont, run twice in succession, adds nothing the second time.
C8_ContIdempotent == HasParser => ContLoop(ContLoop(chart)) = ContLoop(chart)

\* cont is about to run and needs more than one pass
C8_Witness ==
    /\ pc = "cont"
    /\ ContPass(chart) # <<>>
    /\ ContPass(chart \o ContPass(chart)) # <<>>

----------------------------------------------------------------------------
(* C9 *)

LeftIsPrivileged(k) == chart[k].d_rule.rule[1] \in privileged

\* made by the privileged branch of scan: a terminal rule X -> t with the dot
\* behind t
Realized(k) ==
    /\ origin[k] = "scan_privileged"
    /\ chart[k].d_rule.dot_pos = 1
    /\ Len(chart[k].d_rule.rule[2]) = 1
    /\ chart[k].d_rule.rule[2][1].tag = "Terminal"

\* C9 as claimed: predict adds no edge headed by a privileged non-terminal, and
\* every such edge is the seed edge or was made by the privileged branch of
\* scan.
C9_PrivilegedOnlyRealized ==
    \A k \in DOMAIN chart :
        LeftIsPrivileged(k) => (origin[k] # "predict" /\ (k = 1 \/ Realized(k)))

\* C9 as amended: predict adds no edge headed by a privileged non-terminal, and
\* every such edge is the seed edge, or the seed's rule with the dot moved on
\* by the shift of scan or by cont, or was made by the privileged branch of
\* scan.
C9_PrivilegedSuppressed ==
    \A k \in DOMAIN chart :
        LeftIsPrivileged(k) =>
            /\ origin[k] # "predict"
            /\ \/ k = 1
               \/ Realized(k)
               \/ /\ chart[k].d_rule.rule = starting_rule
                  /\ chart[k].d_rule.dot_pos > 0
                  /\ origin[k] \in {"scan_shift", "cont"}

\* predict has skipped a privileged non-terminal that has rules, and scan has
\* realized one
C9_Witness ==
    /\ \E k \in DOMAIN chart : LeftIsPrivileged(k) /\ Realized(k)
    /\ \E k \in DOMAIN chart : origin[k] = "predict"
    /\ \E k \in DOMAIN chart :
          /\ ~DotAtEnd(chart[k])
          /\ AtDot(chart[k]) \in privileged
          /\ get_rules(grammar, AtDot(chart[k])) # <<>>

----------------------------------------------------------------------------
(* C10 *)

\* C10: Parser::new fails exactly when a privileged symbol is not a
\* non-terminal of the grammar or no rule has the start symbol on its left,
\* and then there is no parser and no chart.
C10_ParserNewErrors ==
    (grammar # NoGrammar /\ pc # "parser_new") =>
        LET stray == \E x \in args.privileged : x \notin grammar.non_terminals
            rootless == \A k \in DOMAIN grammar.rules :
                            grammar.rules[k][1] # grammar.start
        IN /\ (stray \/ rootless) <=> result \in {ErrPrivileged, ErrNoStartRule}
           /\ (stray \/ rootless) =>
                  (~HasParser /\ starting_rule = NoRule /\ pc = "exit" /\ calls = 0)
           /\ ~(stray \/ rootless) => HasParser

\* Parser::new has failed on a privileged set of declared symbols, one of them
\* a terminal
C10_Witness ==
    /\ grammar # NoGrammar
    /\ result = ErrPrivileged
    /\ ~HasParser
    /\ args.privileged \subseteq grammar.non_terminals \cup grammar.terminals

----------------------------------------------------------------------------
(* C11 *)

\* C11: the chart of a parser that Parser::new has just built holds exactly one
\* edge, at index 0: a rule of the grammar whose left side is the start symbol,
\* with the dot at 0, the span (0, 0) and an empty history; and starting_rule,
\* which get_end_edges tests against, is that rule.
C11_InitialChart ==
    (HasParser /\ calls = 0) =>
        /\ Len(chart) = 1
        /\ chart[1].d_rule.rule \in Range(grammar.rules)
        /\ chart[1].d_rule.rule[1] = grammar.start
        /\ chart[1].d_rule.dot_pos = 0
        /\ chart[1].span = <<0, 0>>
        /\ chart[1].history = <<>>
        /\ starting_rule = chart[1].d_rule.rule

\* a parser has been built for a grammar whose first rule in iteration order
\* is not a rule of the start symbol
C11_Witness ==
    /\ HasParser
    /\ calls = 0
    /\ pc = "idle"
    /\ grammar.rules[1][1] # grammar.start

----------------------------------------------------------------------------
(* C12 *)

\* C12: Grammar::new returns an error and no grammar exactly when the start
\* symbol is not a non-terminal, or the left side of a rule is not a
\* non-terminal, or a symbol of a right side is neither a terminal nor a
\* non-terminal; otherwise the grammar holds the sets, the start symbol and the
\* rules it was given.
C12_GrammarValidation ==
    pc # "grammar_new" =>
        LET badStart == args.start \notin args.non_terminals
            badLeft == \E k \in DOMAIN args.rules :
                           args.rules[k][1] \notin args.non_terminals
            badRight == \E k \in DOMAIN args.rules : \E m \in DOMAIN args.rules[k][2] :
                            /\ args.rules[k][2][m] \notin args.non_terminals
                            /\ args.rules[k][2][m] \notin args.terminals
        IN /\ (badStart \/ badLeft \/ badRight) <=> grammar = NoGrammar
           /\ grammar = NoGrammar <=> result \in {ErrStart, ErrLeft, ErrRight}
           /\ grammar = NoGrammar => (pc = "exit" /\ ~HasParser)
           /\ grammar # NoGrammar =>
                  /\ grammar.non_terminals = args.non_terminals
                  /\ grammar.terminals = args.terminals
                  /\ grammar.start = args.start
                  /\ grammar.rules = args.rules

\* Grammar::new has rejected rules whose only fault is a symbol of a right side
C12_Witness ==
    /\ pc = "exit"
    /\ grammar = NoGrammar
    /\ result = ErrRight
    /\ args.start \in args.non_terminals
    /\ \A k \in DOMAIN args.rules : args.rules[k][1] \in args.non_terminals

----------------------------------------------------------------------------
(* C13 *)

\* C13: the chart is append-only: every step leaves the chart it found as a
\* prefix of the chart it leaves, so no edge is removed, moved or modified and
\* the length of the chart never decreases.
C13_AppendOnly ==
    [][/\ Len(chart') >= Len(chart)
       /\ \A k \in DOMAIN chart : chart'[k] = chart[k]]_vars

\* a round in which predict, scan and cont have each pushed an edge
C13_Witness ==
    /\ pc = "loop"
    /\ \E k \in DOMAIN chart : k > round_base /\ origin[k] = "predict"
    /\ \E k \in DOMAIN chart : k > round_base /\ origin[k] \in {"scan_shift", "scan_privileged"}
    /\ \E k \in DOMAIN chart : k > round_base /\ origin[k] = "cont"

----------------------------------------------------------------------------
(* C14 *)

\* the non-terminals that derive some string of terminals
RECURSIVE ProductiveClosure(_, _)
ProductiveClosure(rules, known) ==
    LET next == known \cup
                  {r[1] : r \in {q \in rules : \A k \in DOMAIN q[2] :
                                     q[2][k] \in grammar.terminals \/ q[2][k] \in known}}
    IN IF next = known THEN known ELSE ProductiveClosure(rules, next)

Productive == ProductiveClosure(Range(grammar.rules), {})

\* the non-terminals on the right sides of the rules of the symbols of `from`
Uses(from) ==
    UNION {Range(r[2]) : r \in {q \in Range(grammar.rules) : q[1] \in from}}
        \cap grammar.non_terminals

RECURSIVE ReachClosure(_)
ReachClosure(set) ==
    LET next == set \cup Uses(set)
    IN IF next = set THEN set ELSE ReachClosure(next)

\* every non-terminal on a cycle of the rules derives a string of terminals
NoBarrenCycle ==
    \A A \in grammar.non_terminals :
        A \in ReachClosure(Uses({A})) => A \in Productive

\* C14 as claimed: for a grammar without empty right sides and without a cycle of
\* non-terminals that reaches no terminal, the rounds of parse that add an
\* edge, which are the rounds run before an accepting chart or a round that
\* adds nothing, number at most len(input) * (number of rules).
C14_RoundBound ==
    (HasParser /\ NoEmptyRightSide /\ NoBarrenCycle) =>
        rounds <= Len(input) * Len(grammar.rules)

\* C14 as amended: the same with the bound (len(input) + 1) * (number of
\* rules): predictions are also made at position 0 of an empty input and
\* behind the last token, and a chain of them takes one round per link.
C14_RoundBoundPlusOne ==
    (HasParser /\ NoEmptyRightSide /\ NoBarrenCycle) =>
        rounds <= (Len(input) + 1) * Len(grammar.rules)

\* a parse of a non-empty input has run more than len(input) * (number of
\* rules) rounds that added an edge, and then one that added none
C14_Witness ==
    /\ HasParser
    /\ NoEmptyRightSide
    /\ NoBarrenCycle
    /\ Len(input) >= 1
    /\ rounds > Len(input) * Len(grammar.rules)
    /\ RoundAddedNothing

----------------------------------------------------------------------------
(* C15 *)

\* C15: the completed edge that scan adds for a privileged non-terminal in
\* front of the token at position p covers that token alone: its rule is
\* X -> input[p], its dot is at 1, its history is empty and its span is
\* (p, p + 1), wherever the scanned edge begins.
C15_PrivilegedSpanOne ==
    \A k \in DOMAIN chart :
        origin[k] = "scan_privileged" =>
            /\ chart[k].d_rule.dot_pos = 1
            /\ chart[k].history = <<>>
            /\ chart[k].span[2] = chart[k].span[1] + 1

----------------------------------------------------------------------------
(* C16 *)

\* C16: every id in the history of the edge at chart index k is smaller than
\* k and is the id of an edge whose dot is at the end of its rule, so the
\* reconstruction never reads the chart out of range and ends with an empty
\* stack: every accepting edge has a printed rule sequence.
C16_HistoryAcyclic ==
    /\ \A k \in DOMAIN chart : \A m \in DOMAIN chart[k].history :
           /\ chart[k].history[m] >= 0
           /\ chart[k].history[m] < k - 1
           /\ DotAtEnd(chart[chart[k].history[m] + 1])
    /\ result = "Ok" =>
           /\ Len(output) = Len(EndEdges)
           /\ \A k \in DOMAIN output : Head(output[k]) = starting_rule

\* a tree has been printed for an accepting edge with two children, one of
\* which has a child of its own
C16_Witness ==
    /\ result = "Ok"
    /\ \E k \in DOMAIN EndEdges :
          /\ Len(EndEdges[k].history) >= 2
          /\ \E m \in DOMAIN EndEdges[k].history :
                 chart[EndEdges[k].history[m] + 1].history # <<>>

----------------------------------------------------------------------------
(* C17 *)

\* the chart is closed under completion
Closed(ch) ==
    \A i \in DOMAIN ch : \A i2 \in DOMAIN ch :
        (/\ DotAtEnd(ch[i])
         /\ ~DotAtEnd(ch[i2])
         /\ AtDot(ch[i2]) = ch[i].d_rule.rule[1]
         /\ ch[i2].span[2] = ch[i].span[1])
        => \E k \in DOMAIN ch :
               /\ ch[k].d_rule.rule = ch[i2].d_rule.rule
               /\ ch[k].d_rule.dot_pos = ch[i2].d_rule.dot_pos + 1
               /\ ch[k].span = <<ch[i2].span[1], ch[i].span[2]>>

\* C17: cont returns, after a pass that adds no edge, and the chart it leaves
\* is closed under completion: for every completed edge A and every edge B
\* with the dot before A's left side that ends where A begins, the chart holds
\* B's rule with the dot moved on by one over the span (B.start, A.end).
C17_ContClosed ==
    [][pc = "cont" => (pc' = "loop" /\ Closed(chart') /\ ContPass(chart') = <<>>)]_vars

\* cont has returned after three passes or more
C17_Witness ==
    /\ pc = "loop"
    /\ Closed(chart)
    /\ \E k \in DOMAIN chart : \E m \in DOMAIN chart[k].history :
          /\ k > round_base
          /\ origin[k] = "cont"
          /\ chart[k].history[m] + 1 > round_base
          /\ origin[chart[k].history[m] + 1] = "cont"

----------------------------------------------------------------------------
(* C18 *)

\* the chart positions of the accepting edges: the starting rule with the dot
\* at its end over the span (0, len(input))
AcceptingIds ==
    {k \in DOMAIN chart : /\ chart[k].d_rule.rule = starting_rule
                          /\ DotAtEnd(chart[k])
                          /\ chart[k].span = <<0, Len(input)>>}

\* C18: parse runs a further round exactly while the chart holds no accepting
\* edge; once one is there at the loop's test no edge is added any more, and
\* parse returns Ok only with an accepting edge in the chart.
C18_AcceptanceStops ==
    [][/\ (pc = "loop" /\ AcceptingIds = {}) => pc' = "predict"
       /\ (pc = "loop" /\ AcceptingIds # {}) => (pc' = "print" /\ chart' = chart)
       /\ pc = "print" => (pc' = "idle" /\ chart' = chart /\ result' = "Ok")
       /\ pc' \in {"predict", "scan", "cont"} => AcceptingIds = {}
       /\ result' = "Ok" => (AcceptingIds' # {} /\ Len(output') = Cardinality(AcceptingIds'))]_vars

\* parse has returned Ok after a round, with a chart that a further round
\* would have extended
C18_Witness ==
    /\ pc = "idle"
    /\ result = "Ok"
    /\ rounds >= 1
    /\ AcceptingIds # {}
    /\ Round(chart) # chart

----------------------------------------------------------------------------
(* C19 *)

\* C19: during the parse of an input w on a fresh parser every edge of the
\* chart has 0 <= span.start <= span.end <= len(w) and 0 <= dot <= length of
\* the right side of its rule.
C19_EdgesWellFormed ==
    FirstCall =>
        \A k \in DOMAIN chart :
            /\ 0 <= chart[k].span[1]
            /\ chart[k].span[1] <= chart[k].span[2]
            /\ chart[k].span[2] <= Len(input)
            /\ 0 <= chart[k].d_rule.dot_pos
            /\ chart[k].d_rule.dot_pos <= Len(chart[k].d_rule.rule[2])

\* scan has realized a privileged non-terminal and is about to visit an edge
\* that ends at the end of the input with its dot before a terminal
C19_Witness ==
    /\ FirstCall
    /\ pc = "scan"
    /\ Len(input) >= 2
    /\ \E k \in DOMAIN chart : origin[k] = "scan_privileged"
    /\ \E k \in DOMAIN chart :
          /\ chart[k].span[2] = Len(input)
          /\ ~DotAtEnd(chart[k])
          /\ AtDot(chart[k]) \in grammar.terminals

----------------------------------------------------------------------------
(* C20 *)

\* parse on a parser that Parser::new has just built: does its loop end with
\* an accepting edge (TRUE), or reach a round that adds no edge (FALSE)
RECURSIVE FreshAccepts(_)
FreshAccepts(ch) ==
    IF get_end_edges(ch, starting_rule, InputTerminals(input)) # <<>> THEN TRUE
    ELSE LET after == Round(ch)
         IN IF Len(after) = Len(ch) THEN FALSE ELSE FreshAccepts(after)

\* C20: the outcome of a parse call that follows another on the same parser
\* is the outcome of that call on a fresh parser: it returns Ok only for an
\* input that a fresh parser accepts, and it reaches a round without progress
\* and without accepting edge only for an input that a fresh parser does not
\* accept.
C20_CallsIndependent ==
    (HasParser /\ calls = 2) =>
        /\ result = "Ok" => FreshAccepts(<<SeedEdge(starting_rule)>>)
        /\ (RoundAddedNothing /\ EndEdges = <<>>)
              => ~FreshAccepts(<<SeedEdge(starting_rule)>>)

====
